---- MODULE Spec2Model ----
(***************************************************************************)
(* Model of package mdasio (src/mdasio.go): a binary codec bound to one    *)
(* io.Reader, one io.Writer and an 8-byte scratch buffer.                  *)
(*                                                                         *)
(* The reader and the writer are the two ends of one in-memory channel:    *)
(* whatever the sink accepts is appended to `wire`, and the reader         *)
(* consumes `wire` from offset `rpos` and reports io.EOF at its end.       *)
(*                                                                         *)
(* Representation of Go values                                             *)
(*   byte      0..255                                                      *)
(*   uint16    0..65535                                                    *)
(*   int16     -32768..32767                                               *)
(*   uint32    <<lo, hi>>            two 16-bit limbs, least first         *)
(*   uint64    <<l1, l2, l3, l4>>    four 16-bit limbs, least first        *)
(*   int64     the four limbs of its two's complement                      *)
(*   int       the intSize/16 limbs of its two's complement                *)
(*   float32   [sign, exp, mant]     the three IEEE-754 fields             *)
(*   string    sequence of bytes                                           *)
(***************************************************************************)
EXTENDS Integers, Sequences, FiniteSets, TLC

VARIABLES
    intSize,   \* width of Go's int on the build: 32 or 64
    sinkMode,  \* behaviour of the io.Writer behind m.w
    wire,      \* bytes accepted by the sink so far, in order
    rpos,      \* number of bytes of wire the reader has consumed
    buf,       \* m.buf, the 8-byte scratch buffer
    pc,        \* position of the call in progress, "idle" or "panic"
    call,      \* the call in progress or last made: op, arg, offsets at entry
    hist,      \* completed calls: op, arg, returned value and error
    b,         \* writeAll: the bytes still to be written
    wcalls,    \* sink Write calls issued by the current call
    lastW,     \* request size and result of the latest sink Write call
    grid,      \* ReadGrid / WriteGrid: the local grid
    fld,       \* ReadGrid / WriteGrid: next header field, 1..8
    row,       \* ReadGrid / WriteGrid: loop variable i
    rowBuf,    \* ReadGrid / WriteGrid: the row buffer
    rlog,      \* ReadGrid: stream reads issued by the current call
    alloc      \* length handed to the latest make([]byte, n) of ReadString

vars == <<intSize, sinkMode, wire, rpos, buf, pc, call, hist, b, wcalls,
          lastW, grid, fld, row, rowBuf, rlog, alloc>>

----------------------------------------------------------------------------
(* Bounds of the model                                                     *)

MaxScalarCalls == 2
MaxStringCalls == 8
MaxGridCalls == 2
MaxLen == 2
MaxN == 2
MaxM == 3
\* wcalls counts the sink Write calls of a call up to MaxWrites and stays
\* there.
MaxWrites == 12

----------------------------------------------------------------------------
(* Errors                                                                  *)

Nil == "nil"
EOF == "EOF"
ErrUnexpectedEOF == "unexpected EOF"
ErrNoFullWrite == "No full write"
ErrClosedPipe == "io: read/write on closed pipe"

----------------------------------------------------------------------------
(* Integer and float representations                                       *)

BufLen == 8

MinInt32 == -2147483647 - 1
MaxInt32 == 2147483646 + 1

Zeros(n) == [k \in 1..n |-> 0]

Take(s, n) == SubSeq(s, 1, n)
Drop(s, n) == SubSeq(s, n + 1, Len(s))

\* The Go int holding the integer n, for n in the int32 range.
GoInt(n, size) ==
    LET low == <<n % 65536, (n \div 65536) % 65536>>
        ext == IF n < 0 THEN 65535 ELSE 0
    IN  IF size = 64 THEN low \o <<ext, ext>> ELSE low

IsNeg(v) == v[Len(v)] >= 32768

\* A Go int whose value lies in the int32 range, and that value.
Fits(v) ==
    \/ Len(v) = 2
    \/ v[3] = 0 /\ v[4] = 0 /\ v[2] < 32768
    \/ v[3] = 65535 /\ v[4] = 65535 /\ v[2] >= 32768
Value(v) ==
    IF v[2] >= 32768 THEN (v[2] - 65536) * 65536 + v[1]
    ELSE v[2] * 65536 + v[1]

\* 4 * v in Go's wrapping int arithmetic.
Mul4(v) ==
    LET F[k \in 0..Len(v)] ==
            IF k = 0 THEN <<0, <<>>>>
            ELSE LET t == 4 * v[k] + F[k - 1][1]
                 IN  <<t \div 65536, Append(F[k - 1][2], t % 65536)>>
    IN  F[Len(v)][2]

\* encoding/binary.LittleEndian
PutUint16(u) == <<u % 256, u \div 256>>
Uint16(p) == p[1] + 256 * p[2]
PutUint32(u) == PutUint16(u[1]) \o PutUint16(u[2])
Uint32(p) == <<Uint16(SubSeq(p, 1, 2)), Uint16(SubSeq(p, 3, 4))>>
PutUint64(u) ==
    PutUint16(u[1]) \o PutUint16(u[2]) \o PutUint16(u[3]) \o PutUint16(u[4])
Uint64(p) ==
    <<Uint16(SubSeq(p, 1, 2)), Uint16(SubSeq(p, 3, 4)),
      Uint16(SubSeq(p, 5, 6)), Uint16(SubSeq(p, 7, 8))>>

\* Go conversions between integer types
ToUint16(v) == v % 65536
ToInt16(u) == IF u >= 32768 THEN u - 65536 ELSE u
ToUint32(v) == <<v[1], v[2]>>
ToInt(u, size) == IF size = 64 THEN u \o <<0, 0>> ELSE u

\* math.Float32bits, math.Float32frombits
Float32bits(f) ==
    <<f.mant % 65536, f.sign * 32768 + f.exp * 128 + f.mant \div 65536>>
Float32frombits(u) ==
    [sign |-> u[2] \div 32768,
     exp  |-> (u[2] \div 128) % 256,
     mant |-> (u[2] % 128) * 65536 + u[1]]

F32(s, e, m) == [sign |-> s, exp |-> e, mant |-> m]
FZero == F32(0, 0, 0)

----------------------------------------------------------------------------
(* The stream: io.ReadFull on m.r, Write on m.w                            *)

\* io.ReadFull(m.r, p) with len(p) = n, the reader standing at offset pos:
\* the bytes copied into p and the error.  A request of 0 bytes reads
\* nothing and succeeds; no byte at all gives io.EOF, too few give
\* io.ErrUnexpectedEOF.
ReadFull(pos, n) ==
    LET avail == Len(wire) - pos IN
    IF n = 0 THEN [data |-> <<>>, err |-> Nil]
    ELSE IF avail >= n
         THEN [data |-> SubSeq(wire, pos + 1, pos + n), err |-> Nil]
         ELSE [data |-> SubSeq(wire, pos + 1, Len(wire)),
               err  |-> IF avail = 0 THEN EOF ELSE ErrUnexpectedEOF]

\* copy(dst, data): data laid over the front of dst.
Into(dst, data) ==
    [k \in 1..Len(dst) |-> IF k <= Len(data) THEN data[k] ELSE dst[k]]

\* What one Write call of req bytes on the sink may report: n accepted
\* bytes and an error.
\*   full    takes every byte
\*   chunk   takes at least one byte of every request, maybe not all
\*   stall   takes all, or stops taking bytes and is zero from then on
\*   zero    takes nothing and reports no error
\*   faulty  may fall one byte short, may report an error, or both
\*   broken  takes all, or breaks after a whole number of 4-byte words
\*           and is closed from then on
\*   closed  takes nothing and reports the error
SinkModes ==
    {"full", "chunk", "stall", "zero", "faulty", "broken", "closed"}
SinkOutcomes(mode, req) ==
    CASE mode = "full"   -> {[n |-> req, err |-> Nil]}
      [] mode = "chunk"  -> {[n |-> k, err |-> Nil] : k \in 1..req}
      [] mode = "stall"  -> {[n |-> req, err |-> Nil], [n |-> 0, err |-> Nil]}
      [] mode = "zero"   -> {[n |-> 0, err |-> Nil]}
      [] mode = "broken" -> {[n |-> req, err |-> Nil]} \cup
                            {[n |-> k, err |-> ErrClosedPipe] :
                                k \in {j \in 0..(req - 1) : j % 4 = 0}}
      [] mode = "closed" -> {[n |-> 0, err |-> ErrClosedPipe]}
      [] mode = "faulty" -> {[n |-> k, err |-> e] :
                                k \in {req - 1, req},
                                e \in {Nil, ErrClosedPipe}}

----------------------------------------------------------------------------
(* Construction                                                            *)

NoArg == "-"
NoVal == "-"
NoWrite == [req |-> 0, n |-> 0, err |-> Nil]
NoGrid == "-"
NoAlloc == [made |-> FALSE, len |-> <<>>]

NewMdasIO ==
    /\ wire = <<>>
    /\ rpos = 0
    /\ buf = Zeros(BufLen)
    /\ pc = "idle"
    /\ call = [op |-> "none", arg |-> NoArg, pos0 |-> 0, out0 |-> 0]
    /\ hist = <<>>
    /\ b = <<>>
    /\ wcalls = 0
    /\ lastW = NoWrite
    /\ grid = NoGrid
    /\ fld = 0
    /\ row = 0
    /\ rowBuf = <<>>
    /\ rlog = <<>>
    /\ alloc = NoAlloc

\* A call as it is entered: its operation, its argument, and the offsets
\* of the reader and of the sink at entry.
NewCall(op, arg) ==
    [op |-> op, arg |-> arg, pos0 |-> rpos, out0 |-> Len(wire)]

Enter(op, arg) == call' = NewCall(op, arg)

\* Call c returns val and err, the reader standing at offset pos1.
Return(c, val, err, pos1) ==
    /\ hist' = Append(hist, [op |-> c.op, arg |-> c.arg, pos0 |-> c.pos0,
                             out0 |-> c.out0, pos1 |-> pos1,
                             val |-> val, err |-> err])
    /\ pc' = "idle"

ret == hist[Len(hist)]

----------------------------------------------------------------------------
(* Decoding of scalars, on a reader state st = [pos, buf]                  *)

ReadBool_(st) ==
    LET rd == ReadFull(st.pos, 1)
        nb == Into(st.buf, rd.data)
    IN  [val |-> IF rd.err # Nil THEN FALSE ELSE nb[1] # 0,
         err |-> rd.err, pos |-> st.pos + Len(rd.data), buf |-> nb]

ReadInt16_(st) ==
    LET rd == ReadFull(st.pos, 2)
        nb == Into(st.buf, rd.data)
    IN  [val |-> IF rd.err # Nil THEN 0 ELSE ToInt16(Uint16(Take(nb, 2))),
         err |-> rd.err, pos |-> st.pos + Len(rd.data), buf |-> nb]

ReadInt_(st) ==
    LET rd == ReadFull(st.pos, 4)
        nb == Into(st.buf, rd.data)
    IN  [val |-> IF rd.err # Nil THEN GoInt(0, intSize)
                 ELSE ToInt(Uint32(Take(nb, 4)), intSize),
         err |-> rd.err, pos |-> st.pos + Len(rd.data), buf |-> nb]

ReadInt64_(st) ==
    LET rd == ReadFull(st.pos, 8)
        nb == Into(st.buf, rd.data)
    IN  [val |-> IF rd.err # Nil THEN Zeros(4) ELSE Uint64(Take(nb, 8)),
         err |-> rd.err, pos |-> st.pos + Len(rd.data), buf |-> nb]

ReadFloat_(st) ==
    LET rd == ReadFull(st.pos, 4)
        nb == Into(st.buf, rd.data)
    IN  [val |-> IF rd.err # Nil THEN FZero
                 ELSE Float32frombits(Uint32(Take(nb, 4))),
         err |-> rd.err, pos |-> st.pos + Len(rd.data), buf |-> nb]

ReadPoint_(st) ==
    LET lat == ReadFloat_(st)
        lon == ReadFloat_(lat)
    IN  IF lat.err # Nil
        THEN [val |-> [Lat |-> lat.val, Lon |-> FZero],
              err |-> lat.err, pos |-> lat.pos, buf |-> lat.buf]
        ELSE [val |-> [Lat |-> lat.val, Lon |-> lon.val],
              err |-> lon.err, pos |-> lon.pos, buf |-> lon.buf]

Here == [pos |-> rpos, buf |-> buf]

\* A decode call that runs to its return in one step.
Decode(op, res) ==
    /\ pc = "idle"
    /\ Enter(op, NoArg)
    /\ rpos' = res.pos
    /\ buf' = res.buf
    /\ Return(NewCall(op, NoArg), res.val, res.err, res.pos)
    /\ UNCHANGED <<intSize, sinkMode, wire, b, wcalls, lastW, grid, fld, row,
                   rowBuf, rlog, alloc>>

ReadBool == Decode("ReadBool", ReadBool_(Here))
ReadInt16 == Decode("ReadInt16", ReadInt16_(Here))
ReadInt == Decode("ReadInt", ReadInt_(Here))
ReadInt64 == Decode("ReadInt64", ReadInt64_(Here))
ReadFloat == Decode("ReadFloat", ReadFloat_(Here))
ReadPoint == Decode("ReadPoint", ReadPoint_(Here))

----------------------------------------------------------------------------
(* Encoding of fixed-width scalars: one Write call on the sink             *)

\* A fixed-width writer that looks at the byte count before the error.
FixedResultCountFirst(o, width) ==
    IF o.n # width THEN ErrNoFullWrite
    ELSE IF o.err # Nil THEN o.err
    ELSE Nil

\* The value a fixed-width writer returns for a Write call that reported
\* o.n bytes and o.err.
FixedResult(o, width) ==
    IF o.err # Nil THEN o.err
    ELSE IF o.n # width THEN ErrNoFullWrite
    ELSE Nil

\* m.w.Write(p): the sink takes the first o.n bytes of p.
SinkWrite(p, o, count) ==
    /\ wire' = wire \o Take(p, o.n)
    /\ sinkMode' = IF sinkMode = "broken" /\ o.err # Nil THEN "closed"
                   ELSE IF sinkMode = "stall" /\ o.n = 0 THEN "zero"
                   ELSE sinkMode
    /\ wcalls' = IF count < MaxWrites THEN count + 1 ELSE count
    /\ lastW' = [req |-> Len(p), n |-> o.n, err |-> o.err]

\* A fixed-width encode call: fill m.buf[:width], write it once, return.
Encode(op, arg, bytes) ==
    /\ pc = "idle"
    /\ Enter(op, arg)
    /\ buf' = Into(buf, bytes)
    /\ \E o \in SinkOutcomes(sinkMode, Len(bytes)) :
          /\ SinkWrite(bytes, o, 0)
          /\ Return(NewCall(op, arg), NoVal, FixedResult(o, Len(bytes)), rpos)
    /\ UNCHANGED <<intSize, rpos, b, grid, fld, row, rowBuf, rlog, alloc>>

BoolBytes(v) == <<IF v THEN 1 ELSE 0>>
Int16Bytes(v) == PutUint16(ToUint16(v))
IntBytes(v) == PutUint32(ToUint32(v))
Int64Bytes(v) == PutUint64(v)
FloatBytes(v) == PutUint32(Float32bits(v))

BoolInputs == BOOLEAN
Int16Inputs == {-32768, -2, 258, 32767}
IntInputs == {GoInt(n, intSize) : n \in {MinInt32, -1, 66051, MaxInt32}}
Int64Inputs ==
    {<<0, 0, 0, 32768>>, <<65535, 65535, 65535, 65535>>, <<1, 2, 3, 4>>,
     <<65535, 65535, 65535, 32767>>}
FloatInputs ==
    {F32(0, 127, 0), F32(1, 130, 2097152), F32(1, 0, 0),
     F32(0, 255, 4194305)}

WriteBool == \E v \in BoolInputs : Encode("WriteBool", v, BoolBytes(v))
WriteInt16 == \E v \in Int16Inputs : Encode("WriteInt16", v, Int16Bytes(v))
WriteInt == \E v \in IntInputs : Encode("WriteInt", v, IntBytes(v))
WriteInt64 == \E v \in Int64Inputs : Encode("WriteInt64", v, Int64Bytes(v))
WriteFloat == \E v \in FloatInputs : Encode("WriteFloat", v, FloatBytes(v))

----------------------------------------------------------------------------
(* Strings and units                                                       *)

\* io.ReadFull into a buffer whose length is the non-negative Go int len.
\* A length beyond the int32 range exceeds every stream of the model.
ReadFullLen(pos, len) ==
    IF Fits(len) THEN ReadFull(pos, Value(len))
    ELSE [data |-> SubSeq(wire, pos + 1, Len(wire)),
          err  |-> IF Len(wire) = pos THEN EOF ELSE ErrUnexpectedEOF]

\* make([]T, len) panics ("makeslice: len out of range") on a negative
\* length.  Any other length is taken to be granted: running out of
\* memory is not modelled.
MakePanics(len) == IsNeg(len)

\* ReadString on reader state st.  alloc is the length given to make, when
\* make is reached; panic tells that make panicked.
ReadString_(st) ==
    LET n == ReadInt_(st) IN
    IF n.err # Nil
    THEN [val |-> <<>>, err |-> n.err, pos |-> n.pos, buf |-> n.buf,
          alloc |-> NoAlloc, panic |-> FALSE]
    ELSE IF MakePanics(n.val)
    THEN [val |-> <<>>, err |-> Nil, pos |-> n.pos, buf |-> n.buf,
          alloc |-> [made |-> FALSE, len |-> n.val], panic |-> TRUE]
    ELSE LET rd == ReadFullLen(n.pos, n.val) IN
         [val |-> IF rd.err # Nil THEN <<>> ELSE rd.data,
          err |-> rd.err, pos |-> n.pos + Len(rd.data), buf |-> n.buf,
          alloc |-> [made |-> TRUE, len |-> n.val], panic |-> FALSE]

\* A ReadUnit that reads the type before the name.
ReadUnitTypeFirst_(st) ==
    LET id == ReadString_(st)
        ty == ReadString_(id)
        nm == ReadString_(ty)
        U(i, n, t) == [Id |-> i, Name |-> n, Type |-> t]
    IN  IF id.err # Nil \/ id.panic
        THEN [id EXCEPT !.val = U(id.val, <<>>, <<>>)]
        ELSE IF ty.err # Nil \/ ty.panic
        THEN [ty EXCEPT !.val = U(id.val, <<>>, ty.val)]
        ELSE [nm EXCEPT !.val = U(id.val, nm.val, ty.val)]

ReadUnit_(st) ==
    LET id == ReadString_(st)
        nm == ReadString_(id)
        ty == ReadString_(nm)
        U(i, n, t) == [Id |-> i, Name |-> n, Type |-> t]
    IN  IF id.err # Nil \/ id.panic
        THEN [id EXCEPT !.val = U(id.val, <<>>, <<>>)]
        ELSE IF nm.err # Nil \/ nm.panic
        THEN [nm EXCEPT !.val = U(id.val, nm.val, <<>>)]
        ELSE [ty EXCEPT !.val = U(id.val, nm.val, ty.val)]

\* A decode call built on ReadString: it returns, or panics in make.
DecodeString(op, res) ==
    /\ pc = "idle"
    /\ Enter(op, NoArg)
    /\ rpos' = res.pos
    /\ buf' = res.buf
    /\ alloc' = res.alloc
    /\ IF res.panic
       THEN pc' = "panic" /\ hist' = hist
       ELSE Return(NewCall(op, NoArg), res.val, res.err, res.pos)
    /\ UNCHANGED <<intSize, sinkMode, wire, b, wcalls, lastW, grid, fld, row,
                   rowBuf, rlog>>

ReadString == DecodeString("ReadString", ReadString_(Here))
ReadUnit == DecodeString("ReadUnit", ReadUnit_(Here))

----------------------------------------------------------------------------
(* writeAll, WriteString                                                   *)

StringInputs == {[k \in 1..n |-> 96 + k] : n \in 0..MaxLen} \cup {<<0>>}

\* A writeAll that gives up after one Write call.
RestNoRetry(p, n) == <<>>

\* b = b[n:]
Rest(p, n) == Drop(p, n)

\* Where writeAll's result err goes: WriteString returns it; WriteGrid
\* returns it when it is an error and goes on to the next row otherwise.
WriteAllReturn(err) ==
    IF call.op = "WriteGrid" /\ err = Nil
    THEN /\ row' = row + 1
         /\ pc' = "WriteGrid.rows"
         /\ hist' = hist
    ELSE /\ row' = row
         /\ Return(call, NoVal, err, rpos)

WriteStringOf(inputs) ==
    /\ pc = "idle"
    /\ \E v \in inputs :
          LET bytes == IntBytes(GoInt(Len(v), intSize)) IN
          /\ Enter("WriteString", v)
          /\ buf' = Into(buf, bytes)
          /\ \E o \in SinkOutcomes(sinkMode, Len(bytes)) :
                /\ SinkWrite(bytes, o, 0)
                /\ IF FixedResult(o, Len(bytes)) # Nil
                   THEN /\ Return(NewCall("WriteString", v), NoVal,
                                  FixedResult(o, Len(bytes)), rpos)
                        /\ b' = b
                   ELSE /\ pc' = "writeAll"
                        /\ b' = v
                        /\ hist' = hist
    /\ UNCHANGED <<intSize, rpos, grid, fld, row, rowBuf, rlog, alloc>>

WriteString == WriteStringOf(StringInputs)

\* for len(b) > 0
writeAllLoop ==
    /\ pc = "writeAll"
    /\ IF Len(b) > 0
       THEN pc' = "writeAll.Write" /\ UNCHANGED <<hist, row>>
       ELSE WriteAllReturn(Nil)
    /\ UNCHANGED <<intSize, sinkMode, wire, rpos, buf, call, b, wcalls, lastW,
                   grid, fld, rowBuf, rlog, alloc>>

\* n, err := m.w.Write(b); if err != nil { return err }; b = b[n:]
writeAllWrite ==
    /\ pc = "writeAll.Write"
    /\ \E o \in SinkOutcomes(sinkMode, Len(b)) :
          /\ SinkWrite(b, o, wcalls)
          /\ IF o.err # Nil
             THEN WriteAllReturn(o.err) /\ b' = b
             ELSE /\ b' = Rest(b, o.n)
                  /\ pc' = "writeAll"
                  /\ UNCHANGED <<hist, row>>
    /\ UNCHANGED <<intSize, rpos, buf, call, grid, fld, rowBuf, rlog, alloc>>

----------------------------------------------------------------------------
(* Grids                                                                   *)

HeaderFields ==
    <<"N", "M", "MinLat", "MaxLat", "MinLon", "MaxLon", "StepLat", "StepLon">>

ZeroGrid ==
    [N |-> GoInt(0, intSize), M |-> GoInt(0, intSize),
     MinLat |-> FZero, MaxLat |-> FZero, MinLon |-> FZero, MaxLon |-> FZero,
     StepLat |-> FZero, StepLon |-> FZero, Data |-> <<>>]

\* The grids handed to WriteGrid: the header of the reference scenario
\* (-10, 10, 0, 20, 1, 2) and n rows of m cells, filled with a pattern
\* that tells every cell apart.
Cell(i, j) == F32(0, 126 + i, 65536 * j + i)
GridInputs ==
    {[N |-> GoInt(n, intSize), M |-> GoInt(m, intSize),
      MinLat |-> F32(1, 130, 2097152), MaxLat |-> F32(0, 130, 2097152),
      MinLon |-> FZero, MaxLon |-> F32(0, 131, 2097152),
      StepLat |-> F32(0, 127, 0), StepLon |-> F32(0, 128, 0),
      Data |-> [i \in 1..n |-> [j \in 1..m |-> Cell(i, j)]]] :
        n \in 0..MaxN, m \in 0..MaxM}

\* i < n for a loop variable i and a Go int n
Less(i, n) == IF Fits(n) THEN i < Value(n) ELSE ~IsNeg(n)

\* The bytes of header field k of grid g, as WriteInt / WriteFloat lay
\* them in m.buf.
HeaderBytes(g, k) ==
    IF k <= 2 THEN IntBytes(g[HeaderFields[k]])
    ELSE FloatBytes(g[HeaderFields[k]])

\* The row buffer of WriteGrid after its inner loop over one row.
RowBytes(cells) ==
    LET F[k \in 0..Len(cells)] ==
            IF k = 0 THEN <<>> ELSE F[k - 1] \o FloatBytes(cells[k])
    IN  F[Len(cells)]

WriteGrid ==
    /\ pc = "idle"
    /\ \E g \in GridInputs :
          /\ Enter("WriteGrid", g)
          /\ grid' = g
    /\ fld' = 1
    /\ row' = 0
    /\ wcalls' = 0
    /\ pc' = "WriteGrid.header"
    /\ UNCHANGED <<intSize, sinkMode, wire, rpos, buf, hist, b, lastW, rowBuf,
                   rlog, alloc>>

\* One of the eight WriteInt / WriteFloat calls of the header; after the
\* last, rowBuf := make([]byte, 4*v.M).
WriteGridHeader ==
    /\ pc = "WriteGrid.header"
    /\ LET bytes == HeaderBytes(grid, fld) IN
       /\ buf' = Into(buf, bytes)
       /\ \E o \in SinkOutcomes(sinkMode, Len(bytes)) :
             /\ SinkWrite(bytes, o, wcalls)
             /\ IF FixedResult(o, Len(bytes)) # Nil
                THEN /\ Return(call, NoVal, FixedResult(o, Len(bytes)),
                               rpos)
                     /\ UNCHANGED <<fld, rowBuf>>
                ELSE IF fld < Len(HeaderFields)
                THEN /\ fld' = fld + 1
                     /\ UNCHANGED <<pc, hist, rowBuf>>
                ELSE /\ pc' = "WriteGrid.rows"
                     /\ rowBuf' = Zeros(Value(Mul4(grid.M)))
                     /\ UNCHANGED <<fld, hist>>
    /\ UNCHANGED <<intSize, rpos, call, b, grid, row, rlog, alloc>>

\* for i := 0; i < v.N; i++ { fill rowBuf; writeAll(rowBuf) }; return nil
WriteGridRow ==
    /\ pc = "WriteGrid.rows"
    /\ IF Less(row, grid.N)
       THEN /\ rowBuf' = RowBytes(grid.Data[row + 1])
            /\ b' = rowBuf'
            /\ pc' = "writeAll"
            /\ hist' = hist
       ELSE /\ Return(call, NoVal, Nil, rpos)
            /\ UNCHANGED <<rowBuf, b>>
    /\ UNCHANGED <<intSize, sinkMode, wire, rpos, buf, call, wcalls, lastW,
                   grid, fld, row, rlog, alloc>>

ReadGrid ==
    /\ pc = "idle"
    /\ Enter("ReadGrid", NoArg)
    /\ grid' = ZeroGrid
    /\ fld' = 1
    /\ row' = 0
    /\ rlog' = <<>>
    /\ pc' = "ReadGrid.header"
    /\ UNCHANGED <<intSize, sinkMode, wire, rpos, buf, hist, b, wcalls, lastW,
                   rowBuf, alloc>>

\* One of the eight ReadInt / ReadFloat calls of the header.
ReadGridHeader ==
    /\ pc = "ReadGrid.header"
    /\ LET res == IF fld <= 2 THEN ReadInt_(Here) ELSE ReadFloat_(Here)
           g   == [grid EXCEPT ![HeaderFields[fld]] = res.val]
       IN  /\ rpos' = res.pos
           /\ buf' = res.buf
           /\ grid' = g
           /\ rlog' = Append(rlog, [what |-> HeaderFields[fld], i |-> 0,
                                    want |-> GoInt(4, intSize),
                                    err |-> res.err])
           /\ IF res.err # Nil
              THEN Return(call, g, res.err, res.pos) /\ fld' = fld
              ELSE IF fld < Len(HeaderFields)
              THEN fld' = fld + 1 /\ UNCHANGED <<pc, hist>>
              ELSE pc' = "ReadGrid.alloc" /\ UNCHANGED <<fld, hist>>
    /\ UNCHANGED <<intSize, sinkMode, wire, call, b, wcalls, lastW, row,
                   rowBuf, alloc>>

\* rowBuf := make([]byte, 4*grid.M); grid.Data = make([][]float32, grid.N)
ReadGridAlloc ==
    /\ pc = "ReadGrid.alloc"
    /\ pc' = IF MakePanics(Mul4(grid.M)) \/ MakePanics(grid.N)
             THEN "panic" ELSE "ReadGrid.rows"
    /\ rowBuf' = <<>>
    /\ UNCHANGED <<intSize, sinkMode, wire, rpos, buf, call, hist, b, wcalls,
                   lastW, grid, fld, row, rlog, alloc>>

\* The scratch buffer is sliced as m.buf[4*j : 4*j+4] for every j < m:
\* the slice expression panics once 4*j+4 exceeds the buffer's length.
SliceInRange(j) == 4 * j + 4 <= BufLen
RowPanics(m) == \E j \in 0..(BufLen \div 4) : Less(j, m) /\ ~SliceInRange(j)

\* grid.Data[i] after the inner loop of ReadGrid, for a row of m cells.
DecodeRow(scratch, m) ==
    [j \in 1..Value(m) |->
        Float32frombits(Uint32(SubSeq(scratch, 4 * (j - 1) + 1, 4 * j)))]

\* A row loop that runs once too often.
MoreRowsInclusive(i, n) == IF Fits(n) THEN i <= Value(n) ELSE ~IsNeg(n)

\* i < grid.N, the condition of the row loop of ReadGrid
MoreRows(i, n) == Less(i, n)

\* One iteration of the row loop, or the return after the last.  rowBuf
\* holds the bytes the latest io.ReadFull stored in the row buffer.
ReadGridRow ==
    /\ pc = "ReadGrid.rows"
    /\ IF MoreRows(row, grid.N)
       THEN LET len == Mul4(grid.M)
                rd  == ReadFullLen(rpos, len)
            IN  /\ rpos' = rpos + Len(rd.data)
                /\ rowBuf' = rd.data
                /\ rlog' = Append(rlog, [what |-> "row", i |-> row,
                                         want |-> len, err |-> rd.err])
                /\ IF rd.err # Nil
                   THEN /\ Return(call, grid, rd.err, rpos + Len(rd.data))
                        /\ UNCHANGED <<grid, row>>
                   ELSE IF MakePanics(grid.M) \/ RowPanics(grid.M)
                   THEN /\ pc' = "panic"
                        /\ UNCHANGED <<hist, grid, row>>
                   ELSE /\ grid' = [grid EXCEPT !.Data =
                                       Append(@, DecodeRow(buf, grid.M))]
                        /\ row' = row + 1
                        /\ UNCHANGED <<pc, hist>>
       ELSE /\ Return(call, grid, Nil, rpos)
            /\ UNCHANGED <<rpos, rowBuf, rlog, grid, row>>
    /\ UNCHANGED <<intSize, sinkMode, wire, buf, call, b, wcalls, lastW, fld,
                   alloc>>

----------------------------------------------------------------------------
(* The scalar codec under test                                             *)

Env(modes) ==
    /\ intSize \in {32, 64}
    /\ sinkMode \in modes

InitScalar == NewMdasIO /\ Env({"full", "faulty"})

MayCall(limit) == Len(hist) < limit

\* The first call on a fresh codec.
FirstCall == call.op = "none"

NextScalar ==
    \/ MayCall(MaxScalarCalls) /\ WriteBool
    \/ MayCall(MaxScalarCalls) /\ WriteInt16
    \/ MayCall(MaxScalarCalls) /\ WriteInt
    \/ MayCall(MaxScalarCalls) /\ WriteInt64
    \/ MayCall(MaxScalarCalls) /\ WriteFloat
    \/ MayCall(MaxScalarCalls) /\ ReadBool
    \/ MayCall(MaxScalarCalls) /\ ReadInt16
    \/ MayCall(MaxScalarCalls) /\ ReadInt
    \/ MayCall(MaxScalarCalls) /\ ReadInt64
    \/ MayCall(MaxScalarCalls) /\ ReadFloat
    \/ MayCall(MaxScalarCalls) /\ ReadPoint
    \/ MayCall(MaxScalarCalls) /\ ReadString

SpecScalar == InitScalar /\ [][NextScalar]_vars

----------------------------------------------------------------------------
(* Units over strings: WriteString calls, then ReadUnit                    *)

InitString == NewMdasIO /\ Env({"full"})

\* The strings units are made of.
UnitStrings == {<<>>, <<97, 0>>}
WriteUnitString == WriteStringOf(UnitStrings)

NextString ==
    \/ MayCall(MaxStringCalls) /\ WriteUnitString
    \/ writeAllLoop
    \/ writeAllWrite
    \/ MayCall(MaxStringCalls) /\ ReadUnit

SpecString == InitString /\ [][NextString]_vars

----------------------------------------------------------------------------
(* Grids: WriteGrid and ReadGrid                                           *)

InitGrid == NewMdasIO /\ Env({"full", "broken"})

NextGrid ==
    \/ FirstCall /\ WriteGrid
    \/ WriteGridHeader
    \/ WriteGridRow
    \/ writeAllLoop
    \/ writeAllWrite
    \/ MayCall(MaxGridCalls) /\ ReadGrid
    \/ ReadGridHeader
    \/ ReadGridAlloc
    \/ ReadGridRow

SpecGrid == InitGrid /\ [][NextGrid]_vars

----------------------------------------------------------------------------
(* The retrying writers against every kind of sink                         *)

InitEncode == NewMdasIO /\ Env({"full", "chunk", "stall", "broken"})

NextEncode ==
    \/ FirstCall /\ WriteString
    \/ FirstCall /\ WriteGrid
    \/ WriteGridHeader
    \/ WriteGridRow
    \/ writeAllLoop
    \/ writeAllWrite

SpecEncode == InitEncode /\ [][NextEncode]_vars

\* Every step of a call is taken by the one goroutine running it, which
\* is never suspended for ever.
FairEncode == SpecEncode /\ WF_vars(NextEncode)

----------------------------------------------------------------------------
(* The wire format, as the encoders are meant to produce it                *)

Concat(ss) ==
    LET F[k \in 0..Len(ss)] == IF k = 0 THEN <<>> ELSE F[k - 1] \o ss[k]
    IN  F[Len(ss)]

EncString(v) == IntBytes(GoInt(Len(v), intSize)) \o v
EncHeader(g) == Concat([k \in 1..Len(HeaderFields) |-> HeaderBytes(g, k)])
EncGrid(g) == EncHeader(g) \o Concat([i \in 1..Len(g.Data) |-> RowBytes(g.Data[i])])
Encoding(op, arg) == IF op = "WriteString" THEN EncString(arg) ELSE EncGrid(arg)

\* The bytes the sink accepted since call h was entered.
Written(h) == SubSeq(wire, h.out0 + 1, Len(wire))

FixedWriteOps ==
    {"WriteBool", "WriteInt16", "WriteInt", "WriteInt64", "WriteFloat"}
ReadOf(op) ==
    CASE op = "WriteBool"  -> "ReadBool"
      [] op = "WriteInt16" -> "ReadInt16"
      [] op = "WriteInt"   -> "ReadInt"
      [] op = "WriteInt64" -> "ReadInt64"
      [] op = "WriteFloat" -> "ReadFloat"
Width(op) ==
    CASE op = "WriteBool"  -> 1
      [] op = "WriteInt16" -> 2
      [] op = "WriteInt"   -> 4
      [] op = "WriteInt64" -> 8
      [] op = "WriteFloat" -> 4

----------------------------------------------------------------------------
(* Properties                                                              *)

\* C1: a grid written by WriteGrid into an empty sink that takes every
\* write in full, and then read by ReadGrid from the first byte, comes
\* back with no error and identical in N, M, the six header floats and
\* every cell.
C1_GridRoundTrip ==
    \A k \in 2..Len(hist) :
        LET wr == hist[k - 1]
            rd == hist[k]
        IN  (/\ wr.op = "WriteGrid" /\ wr.err = Nil /\ wr.out0 = 0
             /\ rd.op = "ReadGrid" /\ rd.pos0 = 0)
            => (rd.err = Nil /\ rd.val = wr.arg)

\* C2: in ReadGrid every cell Data[i][j] is the float held by the four
\* bytes at stream offset 32 + 4*(i*M + j) of the grid, and the scratch
\* buffer is never sliced beyond its 8 bytes.
C2_RowsDecodedFromRowBytes ==
    (call.op = "ReadGrid" /\ Len(rlog) > Len(HeaderFields)) =>
        /\ pc # "panic"
        /\ \A i \in 1..Len(grid.Data) : \A j \in 1..Len(grid.Data[i]) :
              LET at == call.pos0 + 32
                            + 4 * ((i - 1) * Value(grid.M) + (j - 1))
              IN  grid.Data[i][j] =
                      Float32frombits(Uint32(SubSeq(wire, at + 1, at + 4)))

\* C3: a scalar written in full by WriteBool, WriteInt16, WriteInt,
\* WriteInt64 or WriteFloat and read next by the matching reader from the
\* place it was written comes back unchanged and with no error.
C3_ScalarRoundTrip ==
    \A k \in 2..Len(hist) :
        LET wr == hist[k - 1]
            rd == hist[k]
        IN  (/\ wr.op \in FixedWriteOps /\ wr.err = Nil
             /\ rd.op = ReadOf(wr.op) /\ rd.pos0 = wr.out0)
            => (rd.err = Nil /\ rd.val = wr.arg)

\* C4: a decode call that fails because the stream ends early returns
\* the zero value of its type along with the error.
ZeroOf(op) ==
    CASE op = "ReadBool"   -> FALSE
      [] op = "ReadInt16"  -> 0
      [] op = "ReadInt"    -> GoInt(0, intSize)
      [] op = "ReadInt64"  -> Zeros(4)
      [] op = "ReadFloat"  -> FZero
      [] op = "ReadString" -> <<>>
      [] op = "ReadPoint"  -> [Lat |-> FZero, Lon |-> FZero]
      [] op = "ReadUnit"   -> [Id |-> <<>>, Name |-> <<>>, Type |-> <<>>]
      [] op = "ReadGrid"   -> ZeroGrid
DecodeOps ==
    {"ReadBool", "ReadInt16", "ReadInt", "ReadInt64", "ReadFloat",
     "ReadString", "ReadPoint", "ReadUnit", "ReadGrid"}
C4_TruncatedDecodeReturnsZero ==
    \A k \in 1..Len(hist) :
        (hist[k].op \in DecodeOps /\ hist[k].err # Nil)
            => hist[k].val = ZeroOf(hist[k].op)

\* C5: when the four bytes ReadString reads as its length prefix have the
\* top bit set, ReadString returns an error: it does not panic, makes no
\* buffer of the prefix's size and consumes nothing after the prefix.
BadPrefix(pos) == Len(wire) >= pos + 4 /\ wire[pos + 4] >= 128
C5_BadPrefixFailsFast ==
    (call.op = "ReadString" /\ BadPrefix(call.pos0)) =>
        /\ pc = "idle"
        /\ ret.err # Nil
        /\ ~alloc.made
        /\ rpos = call.pos0 + 4

\* C6: the k-th ReadUnit, called once the first 3k WriteString calls have
\* completed and every earlier ReadUnit has succeeded, returns the unit
\* made of strings 3k-2, 3k-1 and 3k, and moves the reader by exactly
\* 12 + len(id) + len(name) + len(type) bytes, from the end of unit k-1
\* to the start of unit k+1.
CountOps(op, n) == Cardinality({j \in 1..n : hist[j].op = op})
NthOp(op, k) == CHOOSE j \in 1..Len(hist) : hist[j].op = op /\ CountOps(op, j) = k
UnitLen(k) ==
    12 + Len(hist[NthOp("WriteString", 3 * k - 2)].arg)
       + Len(hist[NthOp("WriteString", 3 * k - 1)].arg)
       + Len(hist[NthOp("WriteString", 3 * k)].arg)
UnitsLen(k) ==
    LET F[n \in 0..k] == IF n = 0 THEN 0 ELSE F[n - 1] + UnitLen(n)
    IN  F[k]
C6_ReadUnitConsumesExactly ==
    \A h \in 1..Len(hist) :
        LET k == CountOps("ReadUnit", h) IN
        (/\ hist[h].op = "ReadUnit"
         /\ CountOps("WriteString", h) >= 3 * k
         /\ \A j \in 1..(h - 1) : hist[j].err = Nil)
        => /\ hist[h].err = Nil
           /\ hist[h].val =
                 [Id   |-> hist[NthOp("WriteString", 3 * k - 2)].arg,
                  Name |-> hist[NthOp("WriteString", 3 * k - 1)].arg,
                  Type |-> hist[NthOp("WriteString", 3 * k)].arg]
           /\ hist[h].pos0 = UnitsLen(k - 1)
           /\ hist[h].pos1 = hist[h].pos0 + UnitLen(k)
C6_TwoUnitsRead ==
    /\ Len(hist) = 8
    /\ hist[7].op = "ReadUnit" /\ hist[7].err = Nil
    /\ hist[8].op = "ReadUnit" /\ hist[8].err = Nil
    /\ hist[7].val = [Id |-> <<97, 0>>, Name |-> <<>>, Type |-> <<97, 0>>]
    /\ hist[8].val = [Id |-> <<>>, Name |-> <<97, 0>>, Type |-> <<>>]
    /\ rpos = Len(wire)

\* C7: a fixed-width writer issues one Write call of exactly the field's
\* width; it returns the sink's error unchanged when there is one,
\* ErrNoFullWrite when the sink took fewer bytes with no error, and nil
\* otherwise; the sink holds what that one call took and nothing more.
C7_FixedWritesDoNotRetry ==
    (Len(hist) > 0 /\ ret.op \in FixedWriteOps) =>
        /\ wcalls = 1
        /\ lastW.req = Width(ret.op)
        /\ Len(wire) = ret.out0 + lastW.n
        /\ lastW.err # Nil => ret.err = lastW.err
        /\ (lastW.err = Nil /\ lastW.n < lastW.req) => ret.err = ErrNoFullWrite
        /\ (lastW.err = Nil /\ lastW.n = lastW.req) => ret.err = Nil
C7_ShortWriteSeen ==
    /\ Len(hist) > 0
    /\ ret.op = "WriteInt64"
    /\ lastW = [req |-> 8, n |-> 7, err |-> Nil]
    /\ ret.err = ErrNoFullWrite

\* C8 as stated: on a sink that reports no error and takes between 1 and
\* all of the bytes of every Write call, WriteString and WriteGrid return
\* nil and the sink holds exactly the full encoding.
ChunkedCallDone ==
    /\ sinkMode = "chunk"
    /\ pc = "idle"
    /\ Len(hist) > 0
    /\ ret.op \in {"WriteString", "WriteGrid"}
C8_ChunkingNeverAnError ==
    ChunkedCallDone =>
        (ret.err = Nil /\ Written(ret) = Encoding(ret.op, ret.arg))

\* C8 as amended: on such a sink WriteString and WriteGrid return nil with
\* exactly the full encoding in the sink, unless the sink took only a part
\* of one of their 4-byte fixed-width writes (the length prefix, a header
\* scalar): then they return ErrNoFullWrite at that write, the sink
\* holding the encoding up to the bytes it took of it.
FixedWrites(op, arg) == IF op = "WriteString" THEN 1 ELSE Len(HeaderFields)
C8_ChunkingFailsOnlyFixedWidth ==
    ChunkedCallDone =>
        \/ /\ ret.err = Nil
           /\ Written(ret) = Encoding(ret.op, ret.arg)
        \/ /\ ret.err = ErrNoFullWrite
           /\ wcalls <= FixedWrites(ret.op, ret.arg)
           /\ lastW.req = 4 /\ lastW.n < 4
           /\ Written(ret) =
                 Take(Encoding(ret.op, ret.arg), 4 * (wcalls - 1) + lastW.n)
C8_ChunkedGridWritten ==
    /\ ChunkedCallDone
    /\ ret.op = "WriteGrid"
    /\ ret.err = Nil
    /\ Len(ret.arg.Data) = 2
    /\ wcalls > Len(HeaderFields) + Len(ret.arg.Data)

\* C9: ReadGrid reads N, M, MinLat, MaxLat, MinLon, MaxLon, StepLat,
\* StepLon, 4 bytes each, then rows 0, 1, ... in order, 4*M bytes each and
\* never more than N of them; only its latest read can have failed, and
\* when it has, ReadGrid has returned that error; it returns nil only
\* after the 8 header reads and exactly N row reads.
ReadGridDone == pc = "idle" /\ Len(hist) > 0 /\ ret.op = "ReadGrid"
C9_ReadGridOrder ==
    call.op = "ReadGrid" =>
        /\ \A k \in 1..Len(rlog) :
              /\ IF k <= Len(HeaderFields)
                 THEN /\ rlog[k].what = HeaderFields[k]
                      /\ rlog[k].want = GoInt(4, intSize)
                 ELSE /\ rlog[k].what = "row"
                      /\ rlog[k].i = k - Len(HeaderFields) - 1
                      /\ rlog[k].i < Value(grid.N)
                      /\ rlog[k].want = Mul4(grid.M)
              /\ k < Len(rlog) => rlog[k].err = Nil
        /\ (Len(rlog) > 0 /\ rlog[Len(rlog)].err # Nil) =>
              (ReadGridDone /\ ret.err = rlog[Len(rlog)].err)
        /\ (ReadGridDone /\ ret.err # Nil) =>
              (Len(rlog) > 0 /\ rlog[Len(rlog)].err = ret.err)
        /\ (ReadGridDone /\ ret.err = Nil) =>
              Len(rlog) = Len(HeaderFields) + Value(grid.N)
C9_TwoRowsRead ==
    /\ call.op = "ReadGrid"
    /\ ReadGridDone
    /\ ret.err = Nil
    /\ Value(ret.val.N) = 2 /\ Value(ret.val.M) = 2
    /\ Len(rlog) = 10
C9_RowReadFailed ==
    /\ call.op = "ReadGrid"
    /\ ReadGridDone
    /\ ret.err = ErrUnexpectedEOF
    /\ Len(rlog) = 10

\* C10: every WriteString and WriteGrid call returns.
C10_EncodeCallsReturn == (pc # "idle") ~> (pc = "idle")

====
